---- MODULE Spec2Model ----
(***************************************************************************)
(* Threshold blind issuance of Pointcheval-Sanders credentials (Coconut),  *)
(* as implemented in src/src/signature.rs.                                 *)
(*                                                                         *)
(* Algebra.  G1, G2 and GT are cyclic groups of the same prime order Q as  *)
(* the scalar field Fr.  A G1 element is represented by its discrete       *)
(* logarithm to the base g1, a G2 element by its discrete logarithm to the *)
(* base g2, and a GT element by its discrete logarithm to the base         *)
(* e(g1, g2); group addition is addition mod Q, scalar multiplication is   *)
(* multiplication mod Q, the identity is 0 and the pairing is the product  *)
(* of the two logarithms.  The field is scaled down from the curve order   *)
(* to a small prime so that every value can be enumerated.                 *)
(***************************************************************************)
EXTENDS Integers, Sequences, FiniteSets, TLC

\* ------------------------------------------------------------------ bounds
\* Order of Fr, G1, G2 and GT (a prime).
Q == 7
\* Largest number of messages (Params::msg_count).
MaxL == 2
\* Largest number of signers the dealer creates shares for.
MaxN == 4

\* ------------------------------------------------------------------ field
Fr == 0 .. (Q - 1)

FieldElement_from(n) == n % Q

Fr_add(a, b) == (a + b) % Q

Fr_neg(a) == (Q - (a % Q)) % Q

Fr_sub(a, b) == (a + Fr_neg(b)) % Q

Fr_mul(a, b) == (a * b) % Q

\* Modular inverse; the inverse of zero is zero, as an exponentiation by Q-2 gives.
Fr_inverse(a) == IF a % Q = 0 THEN 0 ELSE CHOOSE b \in Fr : (a * b) % Q = 1

RECURSIVE SeqSum(_)
SeqSum(s) == IF s = <<>> THEN 0 ELSE (Head(s) + SeqSum(Tail(s))) % Q

Take(s, n) == SubSeq(s, 1, IF n < Len(s) THEN n ELSE Len(s))

Skip(s, n) == SubSeq(s, n + 1, Len(s))

Push(s, e) == Append(s, e)

\* Results of operations that can panic or fail.
Ok(v) == [err |-> "none", val |-> v]

Err(e) == [err |-> e, val |-> <<>>]

IsOk(r) == r.err = "none"

\* ----------------------------------------------------------------- groups
\* Identity of G1 / G2 (in the logarithm representation).
Identity == 0

is_identity(p) == p = Identity

Group_add(p, q) == Fr_add(p, q)

Group_sub(p, q) == Fr_sub(p, q)

Group_negation(p) == Fr_neg(p)

\* &point * &scalar
Group_scalar_mul(p, s) == Fr_mul(p, s)

\* multi_scalar_mul_const_time / multi_scalar_mul_var_time: sum of bases[i] * exps[i];
\* an error when the two vectors differ in length.
multi_scalar_mul(bases, exps) ==
    IF Len(bases) # Len(exps)
    THEN Err("UnequalNoOfBasesExponents")
    ELSE Ok(SeqSum([i \in 1 .. Len(bases) |-> Fr_mul(bases[i], exps[i])]))

\* ate_2_pairing(p1, q1, p2, q2) = e(p1, q1) * e(p2, q2), in GT.
ate_2_pairing(p1, q1, p2, q2) == Fr_add(Fr_mul(p1, q1), Fr_mul(p2, q2))

\* GT's is_one
is_one(e) == e = 0

\* from_msg_hash: a fixed function from byte strings to non-identity group
\* elements without algebraic structure.  Arguments 0 .. Q-1 are the encodings
\* (to_bytes) of the group elements, larger arguments are the domain tags of
\* Params::new.
HashTable == <<3, 5, 1, 6, 2, 4, 5, 2, 4, 3, 6, 1, 5>>

from_msg_hash(bytes) == HashTable[(bytes % Len(HashTable)) + 1]

\* to_bytes of a group element (injective).
to_bytes(p) == p

\* FieldElement::random() returns a non-zero scalar.  RandomStream is the
\* output of the generator; a generator seeded with `seed` starts reading it at
\* a position of its own, and random(seed, i) is its i-th draw (i >= 0).
RandomStream == <<3, 1, 4, 1, 5, 2, 6, 5, 3, 5, 2, 3, 6, 4, 6, 2, 4, 3, 3, 1, 2, 5, 6>>

random(seed, i) == RandomStream[((5 * seed + i) % Len(RandomStream)) + 1]

\* ------------------------------------------------------------- structures
\* Params::new(msg_count, label): g1 and g2 are the bases of the logarithm
\* representation; h[i] is the hash of the label with the tag of index i.
Params_new(msg_count) ==
    [g1 |-> 1, g2 |-> 1, h |-> [i \in 1 .. msg_count |-> from_msg_hash(Q + (i - 1))]]

msg_count(params) == Len(params.h)

Sigkey(x, y) == [x |-> x, y |-> y]

Verkey(X_tilde, Y_tilde) == [X_tilde |-> X_tilde, Y_tilde |-> Y_tilde]

Signature(sigma_1, sigma_2) == [sigma_1 |-> sigma_1, sigma_2 |-> sigma_2]

BlindSignature(h, c1, c2) == [h |-> h, blinded |-> <<c1, c2>>]

\* ----------------------------------------------------------------- ElGamal
\* elgamal_keygen!(g1): (sk, pk) with sk the next random scalar.
elgamal_keygen(g1, sk) == <<sk, Group_scalar_mul(g1, sk)>>

\* elgamal_encrypt!(g1, pk, msg): (g1 * k, pk * k + msg, k) with k the next random scalar.
elgamal_encrypt(g1, pk, msg, k) ==
    <<Group_scalar_mul(g1, k), Group_add(Group_scalar_mul(pk, k), msg), k>>

\* ------------------------------------------------------- Shamir / Lagrange
\* Polynomial::eval by Horner's rule; coeffs[1] is the constant term.
RECURSIVE Polynomial_eval(_, _)
Polynomial_eval(coeffs, x) ==
    IF coeffs = <<>> THEN 0
    ELSE Fr_add(Head(coeffs), Fr_mul(FieldElement_from(x), Polynomial_eval(Tail(coeffs), x)))

\* Product over the ids k of `others` of (-k) / (i - k).
RECURSIVE lagrange_product(_, _)
lagrange_product(others, i) ==
    IF others = {} THEN 1
    ELSE LET k == CHOOSE e \in others : TRUE
             numerator == Fr_neg(FieldElement_from(k))
             denominator == Fr_sub(FieldElement_from(i), FieldElement_from(k))
         IN  Fr_mul(Fr_mul(numerator, Fr_inverse(denominator)),
                    lagrange_product(others \ {k}, i))

\* Polynomial::lagrange_basis_at_0(x_coords, i): the product over the other
\* ids k of (-k) / (i - k); it panics when i is not in the set or 0 is.
lagrange_basis_at_0(x_coords, i) ==
    IF i \notin x_coords \/ 0 \in x_coords
    THEN Err("lagrange_basis_at_0")
    ELSE Ok(lagrange_product(x_coords \ {i}, i))

\* trusted_party_keygen(threshold, total, params): the dealer draws one
\* polynomial of `threshold` coefficients for x and one for each y[j]; signer
\* id (1 .. total) gets the evaluations at id, and the verkey g2 * share.
\* Returns (secret_x, secret_y, keys) with keys[i] = (id, Sigkey, Verkey).
trusted_party_keygen(threshold, total, params, seed) ==
    LET L == msg_count(params)
        poly(p) == [c \in 1 .. threshold |-> random(seed, p * threshold + (c - 1))]
        sk(id) == Sigkey(Polynomial_eval(poly(0), id),
                         [j \in 1 .. L |-> Polynomial_eval(poly(j), id)])
        vk(id) == Verkey(Group_scalar_mul(params.g2, sk(id).x),
                         [j \in 1 .. L |-> Group_scalar_mul(params.g2, sk(id).y[j])])
    IN  << poly(0)[1],
           [j \in 1 .. L |-> poly(j)[1]],
           [id \in 1 .. total |-> <<id, sk(id), vk(id)>>] >>

\* ------------------------------------------------------- SignatureRequest
\* SignatureRequest::new(messages, count_hidden, elgamal_pubkey, params);
\* rnd is the sequence of scalars FieldElement::random() returns: rnd[1] is
\* r and rnd[1 + i] the encryption randomness of hidden message i.
\* Returns (request, randomness).
SignatureRequest_new(messages, count_hidden, elgamal_pubkey, params, rnd) ==
    IF ~(Len(messages) >= count_hidden)
    THEN Err("assert messages.len() >= count_hidden")
    ELSE IF Len(messages) # Len(params.h)
    THEN Err("assert_eq messages.len() params.h.len()")
    ELSE
    LET bases == Push(Take(params.h, count_hidden), params.g1)
        r == rnd[1]
        exponents == Push(Take(messages, count_hidden), r)
        commitment == multi_scalar_mul(bases, exponents).val
        h == from_msg_hash(to_bytes(commitment))
        enc(i) == elgamal_encrypt(params.g1, elgamal_pubkey,
                                  Group_scalar_mul(h, messages[i]), rnd[1 + i])
        ciphertexts == [i \in 1 .. count_hidden |-> <<enc(i)[1], enc(i)[2]>>]
        randomness == <<r>> \o [i \in 1 .. count_hidden |-> enc(i)[3]]
    IN  Ok(<< [known_messages |-> Skip(messages, count_hidden),
               commitment |-> commitment,
               ciphertexts |-> ciphertexts],
              randomness >>)

\* -------------------------------------------------------------- Signature
\* Faulty variant of new_blinded: the known messages are multiplied by
\* y[i] instead of y[hidden_msg_count + i].
Signature_new_blinded_known_index(sig_request, sigkey) ==
    LET hidden_msg_count == Len(sig_request.ciphertexts)
        h == from_msg_hash(to_bytes(sig_request.commitment))
        ys == [i \in 1 .. hidden_msg_count |-> sigkey.y[i]]
        exp == Fr_add(sigkey.x,
                      SeqSum([i \in 1 .. Len(sig_request.known_messages) |->
                                  Fr_mul(sigkey.y[i], sig_request.known_messages[i])]))
        c_tilde_1 ==
            multi_scalar_mul([i \in 1 .. hidden_msg_count |-> sig_request.ciphertexts[i][1]],
                             ys).val
        c_tilde_2 ==
            multi_scalar_mul(
                Push([i \in 1 .. hidden_msg_count |-> sig_request.ciphertexts[i][2]], h),
                Push(ys, exp)).val
    IN  Ok(BlindSignature(h, c_tilde_1, c_tilde_2))

\* Signature::new_blinded(sig_request, sigkey)
RECURSIVE known_exp(_, _, _, _)
known_exp(exp, y, known_messages, i) ==
    IF i > Len(known_messages) THEN exp
    ELSE known_exp(Fr_add(exp, Fr_mul(y[i], known_messages[i])), y, known_messages, i + 1)

Signature_new_blinded(sig_request, sigkey) ==
    LET hidden_msg_count == Len(sig_request.ciphertexts)
    IN
    IF hidden_msg_count + Len(sig_request.known_messages) # Len(sigkey.y)
    THEN Err("assert_eq hidden_msg_count + known_messages.len() sigkey.y.len()")
    ELSE
    LET h == from_msg_hash(to_bytes(sig_request.commitment))
        c_tilde_1_bases == [i \in 1 .. hidden_msg_count |-> sig_request.ciphertexts[i][1]]
        c_tilde_1_exps == [i \in 1 .. hidden_msg_count |-> sigkey.y[i]]
        exp == known_exp(sigkey.x, Skip(sigkey.y, hidden_msg_count),
                         sig_request.known_messages, 1)
        c_tilde_2_bases ==
            Push([i \in 1 .. hidden_msg_count |-> sig_request.ciphertexts[i][2]], h)
        c_tilde_2_exps == Push([i \in 1 .. hidden_msg_count |-> sigkey.y[i]], exp)
        c_tilde_1 == multi_scalar_mul(c_tilde_1_bases, c_tilde_1_exps).val
        c_tilde_2 == multi_scalar_mul(c_tilde_2_bases, c_tilde_2_exps).val
    IN  Ok(BlindSignature(h, c_tilde_1, c_tilde_2))

\* Faulty variant of new_unblinded: a_sk is added instead of subtracted.
Signature_new_unblinded_added(sig, elgamal_sk) ==
    Signature(sig.h, Group_add(sig.blinded[2], Group_scalar_mul(sig.blinded[1], elgamal_sk)))

\* Signature::new_unblinded(sig, elgamal_sk)
Signature_new_unblinded(sig, elgamal_sk) ==
    LET a_sk == Group_scalar_mul(sig.blinded[1], elgamal_sk)
        sigma_2 == Group_sub(sig.blinded[2], a_sk)
    IN  Signature(sig.h, sigma_2)

\* The first failure among a sequence of results, or "none".
RECURSIVE FirstErr(_)
FirstErr(rs) ==
    IF rs = <<>> THEN "none"
    ELSE IF ~IsOk(Head(rs)) THEN Head(rs).err ELSE FirstErr(Tail(rs))

\* Faulty variant of Signature::aggregate: the sigma_2 are added without
\* their Lagrange coefficients.
Signature_aggregate_unweighted(threshold, sigs) ==
    IF ~(Len(sigs) >= threshold)
    THEN Err("assert sigs.len() >= threshold")
    ELSE IF Len(sigs) = 0
    THEN Err("index out of bounds")
    ELSE LET first == Take(sigs, threshold)
         IN  Ok(Signature(sigs[1][2].sigma_1,
                          SeqSum([i \in 1 .. Len(first) |-> first[i][2].sigma_2])))

\* Faulty variant of Signature::aggregate: no assertion on the number of
\* entries; the entries present are aggregated.
Signature_aggregate_no_assert(threshold, sigs) ==
    IF Len(sigs) = 0
    THEN Err("index out of bounds")
    ELSE
    LET first == Take(sigs, threshold)
        signer_ids == {first[i][1] : i \in 1 .. Len(first)}
        ls == [i \in 1 .. Len(first) |-> lagrange_basis_at_0(signer_ids, first[i][1])]
    IN  IF FirstErr(ls) # "none" THEN Err(FirstErr(ls))
        ELSE Ok(Signature(sigs[1][2].sigma_1,
                          multi_scalar_mul([i \in 1 .. Len(first) |-> first[i][2].sigma_2],
                                           [i \in 1 .. Len(first) |-> ls[i].val]).val))

\* Faulty variant of Signature::aggregate: the set of signer ids is collected
\* from the whole vector, not from its first threshold entries.
Signature_aggregate_all_ids(threshold, sigs) ==
    IF ~(Len(sigs) >= threshold)
    THEN Err("assert sigs.len() >= threshold")
    ELSE IF Len(sigs) = 0
    THEN Err("index out of bounds")
    ELSE
    LET first == Take(sigs, threshold)
        signer_ids == {sigs[i][1] : i \in 1 .. Len(sigs)}
        ls == [i \in 1 .. Len(first) |-> lagrange_basis_at_0(signer_ids, first[i][1])]
    IN  IF FirstErr(ls) # "none" THEN Err(FirstErr(ls))
        ELSE Ok(Signature(sigs[1][2].sigma_1,
                          multi_scalar_mul([i \in 1 .. Len(first) |-> first[i][2].sigma_2],
                                           [i \in 1 .. Len(first) |-> ls[i].val]).val))

\* Hardened variant of Signature::aggregate: it asserts that the first
\* threshold entries share one sigma_1.
Signature_aggregate_sigma_1_checked(threshold, sigs) ==
    IF ~(Len(sigs) >= threshold)
    THEN Err("assert sigs.len() >= threshold")
    ELSE IF Len(sigs) = 0
    THEN Err("index out of bounds")
    ELSE
    LET first == Take(sigs, threshold)
        signer_ids == {first[i][1] : i \in 1 .. Len(first)}
        ls == [i \in 1 .. Len(first) |-> lagrange_basis_at_0(signer_ids, first[i][1])]
    IN  IF \E i \in 1 .. Len(first) : first[i][2].sigma_1 # sigs[1][2].sigma_1
        THEN Err("assert_eq sigma_1")
        ELSE IF FirstErr(ls) # "none" THEN Err(FirstErr(ls))
        ELSE Ok(Signature(sigs[1][2].sigma_1,
                          multi_scalar_mul([i \in 1 .. Len(first) |-> first[i][2].sigma_2],
                                           [i \in 1 .. Len(first) |-> ls[i].val]).val))

\* Signature::aggregate(threshold, sigs); sigs[i] = <<id, Signature>>.
Signature_aggregate(threshold, sigs) ==
    IF ~(Len(sigs) >= threshold)
    THEN Err("assert sigs.len() >= threshold")
    ELSE IF Len(sigs) = 0
    THEN Err("index out of bounds")
    ELSE
    LET sigma_1 == sigs[1][2].sigma_1
        first == Take(sigs, threshold)
        signer_ids == {first[i][1] : i \in 1 .. Len(first)}
        ls == [i \in 1 .. Len(first) |-> lagrange_basis_at_0(signer_ids, first[i][1])]
        s_bases == [i \in 1 .. Len(first) |-> first[i][2].sigma_2]
    IN  IF FirstErr(ls) # "none" THEN Err(FirstErr(ls))
        ELSE LET s_exps == [i \in 1 .. Len(first) |-> ls[i].val]
                 s == multi_scalar_mul(s_bases, s_exps).val
             IN  Ok(Signature(sigma_1, s))

\* Faulty variant of Signature::verify: no test for the identity.
Signature_verify_no_identity_check(self, messages, vk, params) ==
    IF Len(messages) # Len(vk.Y_tilde)
    THEN Err("assert_eq messages.len() vk.Y_tilde.len()")
    ELSE
    LET Y_m == Group_add(vk.X_tilde, multi_scalar_mul(vk.Y_tilde, messages).val)
    IN  Ok(is_one(ate_2_pairing(self.sigma_1, Y_m, Group_negation(self.sigma_2), params.g2)))

\* Signature::verify(self, messages, vk, params)
Signature_verify(self, messages, vk, params) ==
    IF Len(messages) # Len(vk.Y_tilde)
    THEN Err("assert_eq messages.len() vk.Y_tilde.len()")
    ELSE IF is_identity(self.sigma_1) \/ is_identity(self.sigma_2)
    THEN Ok(FALSE)
    ELSE
    LET Y_m_bases == [i \in 1 .. Len(messages) |-> vk.Y_tilde[i]]
        Y_m_exps == [i \in 1 .. Len(messages) |-> messages[i]]
        Y_m == Group_add(vk.X_tilde, multi_scalar_mul(Y_m_bases, Y_m_exps).val)
        e == ate_2_pairing(self.sigma_1, Y_m, Group_negation(self.sigma_2), params.g2)
    IN  Ok(is_one(e))

\* ----------------------------------------------------------------- Verkey
\* Faulty variants of Verkey::aggregate.  With weighted = FALSE the verkeys are
\* added without their Lagrange coefficients; with y_index = FALSE every
\* Y_tilde[j] is aggregated from the Y_tilde[0] of the keys.
Verkey_aggregate_faulty(threshold, keys, weighted, y_index) ==
    IF ~(Len(keys) >= threshold)
    THEN Err("assert keys.len() >= threshold")
    ELSE IF Len(keys) = 0
    THEN Err("index out of bounds")
    ELSE
    LET q == Len(keys[1][2].Y_tilde)
        first == Take(keys, threshold)
        signer_ids == {first[i][1] : i \in 1 .. Len(first)}
        ls == [i \in 1 .. Len(first) |-> lagrange_basis_at_0(signer_ids, first[i][1])]
    IN  IF \E i \in 2 .. Len(keys) : Len(keys[i][2].Y_tilde) # q
        THEN Err("assert_eq q keys[i].1.Y_tilde.len()")
        ELSE IF FirstErr(ls) # "none" THEN Err(FirstErr(ls))
        ELSE LET exps == [i \in 1 .. Len(first) |-> IF weighted THEN ls[i].val ELSE 1]
                 Y_tilde_bases(j) ==
                     [i \in 1 .. Len(first) |-> first[i][2].Y_tilde[IF y_index THEN j ELSE 1]]
             IN  Ok(Verkey(multi_scalar_mul([i \in 1 .. Len(first) |-> first[i][2].X_tilde],
                                            exps).val,
                           [j \in 1 .. q |-> multi_scalar_mul(Y_tilde_bases(j), exps).val]))

Verkey_aggregate_unweighted(threshold, keys) ==
    Verkey_aggregate_faulty(threshold, keys, FALSE, TRUE)

Verkey_aggregate_y_index(threshold, keys) ==
    Verkey_aggregate_faulty(threshold, keys, TRUE, FALSE)

\* Verkey::aggregate(threshold, keys); keys[i] = <<id, Verkey>>.
Verkey_aggregate(threshold, keys) ==
    IF ~(Len(keys) >= threshold)
    THEN Err("assert keys.len() >= threshold")
    ELSE IF Len(keys) = 0
    THEN Err("index out of bounds")
    ELSE
    LET q == Len(keys[1][2].Y_tilde)
    IN
    IF \E i \in 2 .. Len(keys) : Len(keys[i][2].Y_tilde) # q
    THEN Err("assert_eq q keys[i].1.Y_tilde.len()")
    ELSE
    LET first == Take(keys, threshold)
        signer_ids == {first[i][1] : i \in 1 .. Len(first)}
        ls == [i \in 1 .. Len(first) |-> lagrange_basis_at_0(signer_ids, first[i][1])]
    IN  IF FirstErr(ls) # "none" THEN Err(FirstErr(ls))
        ELSE LET exps == [i \in 1 .. Len(first) |-> ls[i].val]
                 X_tilde_bases == [i \in 1 .. Len(first) |-> first[i][2].X_tilde]
                 Y_tilde_bases(j) == [i \in 1 .. Len(first) |-> first[i][2].Y_tilde[j]]
                 X_tilde == multi_scalar_mul(X_tilde_bases, exps).val
                 Y_tilde == [j \in 1 .. q |-> multi_scalar_mul(Y_tilde_bases(j), exps).val]
             IN  Ok(Verkey(X_tilde, Y_tilde))

\* ------------------------------------------------- proof of knowledge (VC)
\* impl_PoK_VC!: ProverCommitting collects (generator, blinding) pairs,
\* finish() commits to the blindings, gen_proof answers a challenge and
\* Proof::verify rebuilds the commitment from the responses.
ProverCommitting_new == [gens |-> <<>>, blindings |-> <<>>]

\* commit(gen, Some(blinding)) or commit(gen, None) with blinding the next random scalar
ProverCommitting_commit(self, gen, blinding) ==
    [gens |-> Push(self.gens, gen), blindings |-> Push(self.blindings, blinding)]

ProverCommitting_finish(self) ==
    [gens |-> self.gens, blindings |-> self.blindings,
     commitment |-> multi_scalar_mul(self.gens, self.blindings).val]

\* ProverCommitted::gen_proof(challenge, secrets): response = blinding + challenge * secret
ProverCommitted_gen_proof(self, c, secrets) ==
    IF Len(secrets) # Len(self.gens)
    THEN Err("UnequalNoOfBasesExponents")
    ELSE Ok([commitment |-> self.commitment,
             responses |-> [i \in 1 .. Len(self.gens) |->
                                Fr_add(self.blindings[i], Fr_mul(c, secrets[i]))]])

\* Proof::verify(bases, commitment, challenge):
\* sum of bases[i] * responses[i] - commitment * challenge == self.commitment
Proof_verify(self, bases, commitment, c) ==
    IF Len(bases) # Len(self.responses)
    THEN Err("UnequalNoOfBasesExponents")
    ELSE Ok(Group_sub(multi_scalar_mul(bases, self.responses).val,
                      Group_scalar_mul(commitment, c)) = self.commitment)

\* ---------------------------------------------------- SignatureRequestPoK
\* Faulty variant of SignatureRequestPoK::init: committing_2 blinds the hidden
\* message with a scalar of its own instead of the blinding used in the commitment.
SignatureRequestPoK_init_fresh_blinding(sig_req, elgamal_pk, params, rnd) ==
    LET k == Len(sig_req.ciphertexts)
        h == from_msg_hash(to_bytes(sig_req.commitment))
        finish(gens, blindings) ==
            ProverCommitting_finish([gens |-> gens, blindings |-> blindings])
    IN  Ok([pok_vc_elgamal_sk |-> finish(<<params.g1>>, <<rnd[1]>>),
            pok_vc_commitment |->
                finish(Push(Take(params.h, k), params.g1),
                       Push([i \in 1 .. k |-> rnd[1 + i]], rnd[2 + k])),
            pok_vc_ciphertext |->
                [i \in 1 .. k |->
                    <<finish(<<params.g1>>, <<rnd[2 + k + 2 * i - 1]>>),
                      finish(<<elgamal_pk, h>>,
                             <<rnd[2 + k + 2 * i], Fr_add(rnd[1 + i], 1)>>)>>]])

\* SignatureRequestPoK::init(sig_req, elgamal_pk, params); rnd is the
\* sequence of scalars FieldElement::random() returns, in the order of the
\* draws: the blinding for the ElGamal secret, one blinding per hidden
\* message, the blinding for r, and for each ciphertext the blinding of
\* committing_1 and then the (first) blinding of committing_2.
SignatureRequestPoK_init(sig_req, elgamal_pk, params, rnd) ==
    IF Len(sig_req.known_messages) + Len(sig_req.ciphertexts) # Len(params.h)
    THEN Err("assert_eq known_messages.len() + ciphertexts.len() params.h.len()")
    ELSE
    LET k == Len(sig_req.ciphertexts)
        committed_elgamal_sk ==
            ProverCommitting_finish(
                ProverCommitting_commit(ProverCommitting_new, params.g1, rnd[1]))
        hidden_msg_blindings == [i \in 1 .. k |-> rnd[1 + i]]
        committed_comm ==
            ProverCommitting_finish(
                [gens |-> Push(Take(params.h, k), params.g1),
                 blindings |-> Push(hidden_msg_blindings, rnd[2 + k])])
        h == from_msg_hash(to_bytes(sig_req.commitment))
        committing_1(i) ==
            ProverCommitting_commit(ProverCommitting_new, params.g1, rnd[2 + k + 2 * i - 1])
        committing_2(i) ==
            ProverCommitting_commit(
                ProverCommitting_commit(ProverCommitting_new, elgamal_pk, rnd[2 + k + 2 * i]),
                h, hidden_msg_blindings[i])
        ciphertext_commts ==
            [i \in 1 .. k |-> <<ProverCommitting_finish(committing_1(i)),
                                ProverCommitting_finish(committing_2(i))>>]
    IN  Ok([pok_vc_elgamal_sk |-> committed_elgamal_sk,
            pok_vc_commitment |-> committed_comm,
            pok_vc_ciphertext |-> ciphertext_commts])

\* Number of scalars SignatureRequestPoK::init draws for k hidden messages.
PoK_draws(k) == 2 + 3 * k

\* SignatureRequestPoK::gen_proof(self, hidden_messages, randomness, elgamal_sk, challenge)
SignatureRequestPoK_gen_proof(self, hidden_messages, rand, elgamal_sk, c) ==
    IF Len(self.pok_vc_ciphertext) # Len(hidden_messages)
    THEN Err("assert_eq pok_vc_ciphertext.len() hidden_messages.len()")
    ELSE IF Len(self.pok_vc_ciphertext) # Len(rand) - 1
    THEN Err("assert_eq pok_vc_ciphertext.len() randomness.len() - 1")
    ELSE
    LET k == Len(hidden_messages)
        proof_elgamal_sk == ProverCommitted_gen_proof(self.pok_vc_elgamal_sk, c, <<elgamal_sk>>)
        secrets_commitment == Push(hidden_messages, rand[1])
        proof_commitment == ProverCommitted_gen_proof(self.pok_vc_commitment, c, secrets_commitment)
        proof_1(i) == ProverCommitted_gen_proof(self.pok_vc_ciphertext[i][1], c, <<rand[i + 1]>>)
        proof_2(i) == ProverCommitted_gen_proof(self.pok_vc_ciphertext[i][2], c,
                                                <<rand[i + 1], hidden_messages[i]>>)
        all == <<proof_elgamal_sk, proof_commitment>>
                 \o [n \in 1 .. 2 * k |->
                        IF n % 2 = 1 THEN proof_1((n + 1) \div 2) ELSE proof_2(n \div 2)]
    IN  IF FirstErr(all) # "none" THEN Err(FirstErr(all))
        ELSE Ok([proof_elgamal_sk |-> proof_elgamal_sk.val,
                 proof_commitment |-> proof_commitment.val,
                 proof_ciphertexts |-> [i \in 1 .. k |-> <<proof_1(i).val, proof_2(i).val>>]])

\* Faulty variant of the loop over the ciphertext proofs: the proof for a_i is
\* not verified.
RECURSIVE verify_ciphertexts_skip_a(_, _, _, _, _, _)
verify_ciphertexts_skip_a(self, sig_req, bases, g1, c, i) ==
    IF i > Len(self.proof_ciphertexts) THEN Ok(TRUE)
    ELSE
    LET proof_2 == self.proof_ciphertexts[i][2]
    IN  IF proof_2.responses[2] # self.proof_commitment.responses[i] THEN Ok(FALSE)
        ELSE
        LET v2 == Proof_verify(proof_2, bases, sig_req.ciphertexts[i][2], c)
        IN  IF ~IsOk(v2) THEN v2
            ELSE IF ~v2.val THEN Ok(FALSE)
            ELSE verify_ciphertexts_skip_a(self, sig_req, bases, g1, c, i + 1)

\* Faulty variant of the loop of SignatureRequestProof::verify: the response
\* for the hidden message is not compared with that of the commitment proof.
RECURSIVE verify_ciphertexts_no_linkage(_, _, _, _, _, _)
verify_ciphertexts_no_linkage(self, sig_req, bases, g1, c, i) ==
    IF i > Len(self.proof_ciphertexts) THEN Ok(TRUE)
    ELSE
    LET proof_1 == self.proof_ciphertexts[i][1]
        proof_2 == self.proof_ciphertexts[i][2]
        v1 == Proof_verify(proof_1, <<g1>>, sig_req.ciphertexts[i][1], c)
    IN  IF ~IsOk(v1) THEN v1
        ELSE IF ~v1.val THEN Ok(FALSE)
        ELSE
        LET v2 == Proof_verify(proof_2, bases, sig_req.ciphertexts[i][2], c)
        IN  IF ~IsOk(v2) THEN v2
            ELSE IF ~v2.val THEN Ok(FALSE)
            ELSE verify_ciphertexts_no_linkage(self, sig_req, bases, g1, c, i + 1)

\* The loop of SignatureRequestProof::verify over the ciphertext proofs, from index i.
RECURSIVE verify_ciphertexts(_, _, _, _, _, _)
verify_ciphertexts(self, sig_req, bases, g1, c, i) ==
    IF i > Len(self.proof_ciphertexts) THEN Ok(TRUE)
    ELSE
    LET proof_1 == self.proof_ciphertexts[i][1]
        proof_2 == self.proof_ciphertexts[i][2]
    IN  IF Len(proof_2.responses) < 2 THEN Err("index out of bounds")
        ELSE IF proof_2.responses[2] # self.proof_commitment.responses[i] THEN Ok(FALSE)
        ELSE
        LET v1 == Proof_verify(proof_1, <<g1>>, sig_req.ciphertexts[i][1], c)
        IN  IF ~IsOk(v1) THEN v1
            ELSE IF ~v1.val THEN Ok(FALSE)
            ELSE
            LET v2 == Proof_verify(proof_2, bases, sig_req.ciphertexts[i][2], c)
            IN  IF ~IsOk(v2) THEN v2
                ELSE IF ~v2.val THEN Ok(FALSE)
                ELSE verify_ciphertexts(self, sig_req, bases, g1, c, i + 1)

\* SignatureRequestProof::verify(self, sig_req, elgamal_pk, challenge, params)
SignatureRequestProof_verify(self, sig_req, elgamal_pk, c, params) ==
    IF Len(self.proof_ciphertexts) # Len(sig_req.ciphertexts)
    THEN Err("assert_eq proof_ciphertexts.len() sig_req.ciphertexts.len()")
    ELSE IF Len(self.proof_commitment.responses) # Len(self.proof_ciphertexts) + 1
    THEN Err("assert_eq proof_commitment.responses.len() proof_ciphertexts.len() + 1")
    ELSE
    LET v_sk == Proof_verify(self.proof_elgamal_sk, <<params.g1>>, elgamal_pk, c)
    IN  IF ~IsOk(v_sk) THEN v_sk
        ELSE IF ~v_sk.val THEN Ok(FALSE)
        ELSE
        LET bases == Push(Take(params.h, Len(sig_req.ciphertexts)), params.g1)
            v_comm == Proof_verify(self.proof_commitment, bases, sig_req.commitment, c)
        IN  IF ~IsOk(v_comm) THEN v_comm
            ELSE IF ~v_comm.val THEN Ok(FALSE)
            ELSE
            LET h == from_msg_hash(to_bytes(sig_req.commitment))
            IN  verify_ciphertexts(self, sig_req, <<elgamal_pk, h>>, params.g1, c, 1)

\* ================================================================== state
VARIABLES
    phase,            \* position of the issuance session
    params,           \* Params shared by all signers and users
    threshold, total, \* t and n of the dealer
    secret_x, secret_y, keys,   \* output of trusted_party_keygen
    rng,              \* the user's random generator: [seed, pos]
    msgs,             \* the user's message vector
    elg_sk, elg_pk,   \* the user's ElGamal key pair
    sig_req, randomness,        \* output of SignatureRequest::new
    blinded_sigs,     \* <<id, BlindSignature>> received from signers
    unblinded_sigs,   \* <<id, Signature>> unblinded by the user
    partial_ok,       \* result of verify of each unblinded signature
    signed_by,        \* ids of the signers whose signatures were aggregated
    aggr_sig,         \* result of Signature::aggregate
    vk_ids,           \* ids of the signers whose verkeys were aggregated
    aggr_vk,          \* result of Verkey::aggregate
    verified,         \* result of verify of the aggregated signature
    sig_req_pok,      \* output of SignatureRequestPoK::init
    challenge,        \* the challenge given to gen_proof and to verify
    sig_req_proof,    \* output of gen_proof
    proof_ok,         \* result of SignatureRequestProof::verify
    tampered,         \* what was changed after the honest proof verified
    sigs,             \* a vector of (id, Signature) built by a caller
    vkeys,            \* a vector of (id, Verkey) built by a caller
    call              \* the last call of aggregate or verify, with its result

dealerVars == <<params, threshold, total, secret_x, secret_y, keys>>

userVars == <<rng, msgs, elg_sk, elg_pk, sig_req, randomness>>

sigVars == <<blinded_sigs, unblinded_sigs, partial_ok, signed_by, aggr_sig>>

vkVars == <<vk_ids, aggr_vk>>

pokVars == <<sig_req_pok, challenge, sig_req_proof, proof_ok, tampered>>

apiVars == <<sigs, vkeys, call>>

vars == <<phase, dealerVars, userVars, sigVars, vkVars, verified, pokVars, apiVars>>

\* Seeds of the dealer's and of the user's random generators.
Seeds == {0, 1, 2}

\* Values a message can take.
MsgVals == {0, 3}

None == <<>>

\* The next n draws of the generator.
Draws(g, n) == [i \in 1 .. n |-> random(g.seed, g.pos + (i - 1))]

Advance(g, n) == [g EXCEPT !.pos = @ + n]

\* Ascending sequence of the elements of a set of numbers.
RECURSIVE SortedSeq(_)
SortedSeq(S) ==
    IF S = {} THEN <<>>
    ELSE LET m == CHOOSE e \in S : \A o \in S : e <= o
         IN  <<m>> \o SortedSeq(S \ {m})

Ids(vec) == {vec[i][1] : i \in 1 .. Len(vec)}

\* ------------------------------------------------------------ the session
Init ==
    /\ phase = "INIT"
    /\ \E L \in 1 .. MaxL : params = Params_new(L)
    /\ threshold = 0 /\ total = 0
    /\ secret_x = None /\ secret_y = None /\ keys = None
    /\ rng = None /\ msgs = None /\ elg_sk = None /\ elg_pk = None
    /\ sig_req = None /\ randomness = None
    /\ blinded_sigs = <<>> /\ unblinded_sigs = <<>> /\ partial_ok = <<>>
    /\ signed_by = {} /\ aggr_sig = None
    /\ vk_ids = {} /\ aggr_vk = None
    /\ verified = None
    /\ sig_req_pok = None /\ challenge = None /\ sig_req_proof = None
    /\ proof_ok = None /\ tampered = None
    /\ sigs = <<>> /\ vkeys = <<>> /\ call = None

\* let (secret_x, secret_y, keys) = trusted_party_keygen(threshold, total, &params)
TrustedPartyKeygen(t, n, seed) ==
    /\ phase = "INIT"
    /\ 1 <= t /\ t <= n /\ n < Q
    /\ LET out == trusted_party_keygen(t, n, params, seed)
       IN  /\ secret_x' = out[1]
           /\ secret_y' = out[2]
           /\ keys' = out[3]
    /\ threshold' = t
    /\ total' = n
    /\ phase' = "KEYS"
    /\ UNCHANGED <<params, userVars, sigVars, vkVars, verified, pokVars, apiVars>>

\* let (elg_sk, elg_pk) = elgamal_keygen!(&params.g1)
ElgamalKeygen(seed) ==
    /\ phase = "KEYS"
    /\ LET g == [seed |-> seed, pos |-> 0]
           kp == elgamal_keygen(params.g1, Draws(g, 1)[1])
       IN  /\ elg_sk' = kp[1]
           /\ elg_pk' = kp[2]
           /\ rng' = Advance(g, 1)
    /\ phase' = "ELGAMAL"
    /\ UNCHANGED <<dealerVars, msgs, sig_req, randomness, sigVars, vkVars, verified, pokVars, apiVars>>

\* let (sig_req, randomness) = SignatureRequest::new(&msgs, count_hidden, &elg_pk, &params)
NewRequest(messages, count_hidden) ==
    /\ phase = "ELGAMAL"
    /\ LET out == SignatureRequest_new(messages, count_hidden, elg_pk, params,
                                       Draws(rng, 1 + count_hidden))
       IN  /\ IsOk(out)
           /\ sig_req' = out.val[1]
           /\ randomness' = out.val[2]
    /\ msgs' = messages
    /\ rng' = Advance(rng, 1 + count_hidden)
    /\ phase' = "REQUEST_BUILT"
    /\ UNCHANGED <<dealerVars, elg_sk, elg_pk, sigVars, vkVars, verified, pokVars, apiVars>>

\* blinded_sigs.push(Signature::new_blinded(&sig_req, &keys[i].1)), for a
\* signer that has not signed yet, until the user holds `threshold` of them.
BlindSign(id) ==
    /\ phase = "REQUEST_BUILT"
    /\ id \in 1 .. total
    /\ id \notin Ids(blinded_sigs) \cup Ids(unblinded_sigs)
    /\ Len(blinded_sigs) + Len(unblinded_sigs) < threshold
    /\ LET out == Signature_new_blinded(sig_req, keys[id][2])
       IN  /\ IsOk(out)
           /\ blinded_sigs' = Push(blinded_sigs, <<keys[id][1], out.val>>)
    /\ UNCHANGED <<phase, dealerVars, userVars, unblinded_sigs, partial_ok,
                   signed_by, aggr_sig, vkVars, verified, pokVars, apiVars>>

\* let unblinded_sig = Signature::new_unblinded(blinded_sigs.remove(0), &elg_sk);
\* unblinded_sig.verify(&msgs, &keys[i].2, &params);
\* unblinded_sigs.push((keys[i].0, unblinded_sig))
Unblind ==
    /\ phase = "REQUEST_BUILT"
    /\ blinded_sigs # <<>>
    /\ LET id == Head(blinded_sigs)[1]
           unblinded_sig == Signature_new_unblinded(Head(blinded_sigs)[2], elg_sk)
       IN  /\ partial_ok' = Push(partial_ok,
                                 Signature_verify(unblinded_sig, msgs, keys[id][3], params))
           /\ unblinded_sigs' = Push(unblinded_sigs, <<id, unblinded_sig>>)
    /\ blinded_sigs' = Tail(blinded_sigs)
    /\ UNCHANGED <<phase, dealerVars, userVars, signed_by, aggr_sig, vkVars, verified, pokVars, apiVars>>

\* let aggr_sig = Signature::aggregate(threshold, unblinded_sigs)
Aggregate ==
    /\ phase = "REQUEST_BUILT"
    /\ Len(unblinded_sigs) = threshold
    /\ aggr_sig' = Signature_aggregate(threshold, unblinded_sigs)
    /\ signed_by' = Ids(unblinded_sigs)
    /\ unblinded_sigs' = <<>>
    /\ partial_ok' = <<>>
    /\ phase' = "AGGREGATED"
    /\ UNCHANGED <<dealerVars, userVars, blinded_sigs, vkVars, verified, pokVars, apiVars>>

\* let aggr_vk = Verkey::aggregate(threshold, keys_to_aggr), with the verkeys
\* of the signers `ids`.
AggregateVerkey(ids) ==
    /\ phase = "AGGREGATED"
    /\ ids \subseteq 1 .. total
    /\ Cardinality(ids) = threshold
    /\ LET order == SortedSeq(ids)
           keys_to_aggr == [i \in 1 .. Len(order) |-> <<keys[order[i]][1], keys[order[i]][3]>>]
       IN  aggr_vk' = Verkey_aggregate(threshold, keys_to_aggr)
    /\ vk_ids' = ids
    /\ phase' = "VK_AGGREGATED"
    /\ UNCHANGED <<dealerVars, userVars, sigVars, verified, pokVars, apiVars>>

\* aggr_sig.verify(&msgs, &aggr_vk, &params)
Verify ==
    /\ phase = "VK_AGGREGATED"
    /\ IsOk(aggr_sig) /\ IsOk(aggr_vk)
    /\ verified' = Signature_verify(aggr_sig.val, msgs, aggr_vk.val, params)
    /\ phase' = "VERIFIED"
    /\ UNCHANGED <<dealerVars, userVars, sigVars, vkVars, pokVars, apiVars>>

Next ==
    \/ \E n \in 1 .. MaxN, t \in 1 .. MaxN, seed \in Seeds : TrustedPartyKeygen(t, n, seed)
    \/ \E seed \in Seeds : ElgamalKeygen(seed)
    \/ \E messages \in UNION {[1 .. L -> MsgVals] : L \in 1 .. MaxL},
          count_hidden \in 0 .. MaxL : NewRequest(messages, count_hidden)
    \/ \E id \in 1 .. MaxN : BlindSign(id)
    \/ Unblind
    \/ Aggregate
    \/ \E ids \in SUBSET (1 .. MaxN) : AggregateVerkey(ids)
    \/ Verify

Spec == Init /\ [][Next]_vars

\* ------------------------------------------- mismatched partial signatures
\* Before aggregation, the sigma_1 of one of the t unblinded partial signatures
\* (t >= 2) is replaced by another element v of G1, so that the vector given to
\* Signature::aggregate no longer shares one sigma_1.
MismatchSigma1(i, v) ==
    /\ phase = "REQUEST_BUILT"
    /\ tampered = None
    /\ threshold >= 2
    /\ Len(unblinded_sigs) = threshold
    /\ i \in 1 .. threshold
    /\ v # unblinded_sigs[i][2].sigma_1
    /\ unblinded_sigs' = [unblinded_sigs EXCEPT ![i][2].sigma_1 = v]
    /\ tampered' = <<"sigma_1", i, v>>
    /\ UNCHANGED <<phase, dealerVars, userVars, blinded_sigs, partial_ok, signed_by, aggr_sig,
                   vkVars, verified, sig_req_pok, challenge, sig_req_proof, proof_ok, apiVars>>

NextMismatch ==
    \/ Next
    \/ \E i \in 1 .. MaxN, v \in Fr : MismatchSigma1(i, v)

SpecMismatch == Init /\ [][NextMismatch]_vars

\* ------------------------------------------- the proof of the request
\* A user session without a dealer: the request and its proof need only Params.
InitPoK ==
    /\ phase = "KEYS"
    /\ \E L \in 1 .. MaxL : params = Params_new(L)
    /\ threshold = 0 /\ total = 0
    /\ secret_x = None /\ secret_y = None /\ keys = None
    /\ rng = None /\ msgs = None /\ elg_sk = None /\ elg_pk = None
    /\ sig_req = None /\ randomness = None
    /\ blinded_sigs = <<>> /\ unblinded_sigs = <<>> /\ partial_ok = <<>>
    /\ signed_by = {} /\ aggr_sig = None
    /\ vk_ids = {} /\ aggr_vk = None
    /\ verified = None
    /\ sig_req_pok = None /\ challenge = None /\ sig_req_proof = None
    /\ proof_ok = None /\ tampered = None
    /\ sigs = <<>> /\ vkeys = <<>> /\ call = None

\* let sig_req_pok = SignatureRequestPoK::init(&sig_req, &elg_pk, &params)
PoKInit ==
    /\ phase = "REQUEST_BUILT"
    /\ LET n == PoK_draws(Len(sig_req.ciphertexts))
           out == SignatureRequestPoK_init(sig_req, elg_pk, params, Draws(rng, n))
       IN  /\ IsOk(out)
           /\ sig_req_pok' = out.val
           /\ rng' = Advance(rng, n)
    /\ phase' = "POK_INITED"
    /\ UNCHANGED <<dealerVars, msgs, elg_sk, elg_pk, sig_req, randomness, sigVars, vkVars,
                   verified, challenge, sig_req_proof, proof_ok, tampered, apiVars>>

\* let sig_req_proof = sig_req_pok.gen_proof(&hidden_msgs, randomness, &elg_sk, &challenge).unwrap()
\* gen_proof takes sig_req_pok and randomness by value.
GenProof(c) ==
    /\ phase = "POK_INITED"
    /\ LET hidden_msgs == Take(msgs, Len(sig_req.ciphertexts))
           out == SignatureRequestPoK_gen_proof(sig_req_pok, hidden_msgs, randomness, elg_sk, c)
       IN  /\ IsOk(out)
           /\ sig_req_proof' = out.val
    /\ challenge' = c
    /\ sig_req_pok' = None
    /\ randomness' = None
    /\ phase' = "PROVED"
    /\ UNCHANGED <<dealerVars, rng, msgs, elg_sk, elg_pk, sig_req, sigVars, vkVars,
                   verified, proof_ok, tampered, apiVars>>

\* sig_req_proof.verify(&sig_req, &elg_pk, &challenge, &params), by a signer
VerifyProof ==
    /\ phase \in {"PROVED", "TAMPERED", "FORGED"}
    /\ proof_ok' = SignatureRequestProof_verify(sig_req_proof, sig_req, elg_pk, challenge, params)
    /\ phase' = IF phase = "PROVED" THEN "PROOF_VERIFIED"
                 ELSE IF phase = "TAMPERED" THEN "TAMPER_VERIFIED"
                 ELSE "FORGE_VERIFIED"
    /\ UNCHANGED <<dealerVars, userVars, sigVars, vkVars, verified,
                   sig_req_pok, challenge, sig_req_proof, tampered, apiVars>>

\* The Schnorr proofs of a SignatureRequestProof, numbered: 0 is
\* proof_elgamal_sk, 1 is proof_commitment, 2 i and 2 i + 1 are the two proofs
\* of ciphertext i >= 1.
SubProofs(proof) == 0 .. (2 * Len(proof.proof_ciphertexts) + 1)

GetSubProof(proof, n) ==
    IF n = 0 THEN proof.proof_elgamal_sk
    ELSE IF n = 1 THEN proof.proof_commitment
    ELSE proof.proof_ciphertexts[n \div 2][(n % 2) + 1]

SetSubProof(proof, n, sub) ==
    IF n = 0 THEN [proof EXCEPT !.proof_elgamal_sk = sub]
    ELSE IF n = 1 THEN [proof EXCEPT !.proof_commitment = sub]
    ELSE [proof EXCEPT !.proof_ciphertexts[n \div 2][(n % 2) + 1] = sub]

TamperFrame ==
    /\ phase = "PROOF_VERIFIED"
    /\ proof_ok = Ok(TRUE)
    /\ phase' = "TAMPERED"
    /\ UNCHANGED <<dealerVars, rng, msgs, elg_sk, elg_pk, randomness, sigVars, vkVars,
                   verified, sig_req_pok, challenge, proof_ok, apiVars>>

\* One response scalar of one Schnorr proof is changed to v.
TamperResponse(n, j, v) ==
    /\ TamperFrame
    /\ n \in SubProofs(sig_req_proof)
    /\ j \in 1 .. Len(GetSubProof(sig_req_proof, n).responses)
    /\ v # GetSubProof(sig_req_proof, n).responses[j]
    /\ sig_req_proof' = SetSubProof(sig_req_proof, n,
                            [GetSubProof(sig_req_proof, n) EXCEPT !.responses[j] = v])
    /\ tampered' = <<"response", n, j>>
    /\ UNCHANGED sig_req

\* The commitment T of one Schnorr proof is changed to v.
TamperT(n, v) ==
    /\ TamperFrame
    /\ n \in SubProofs(sig_req_proof)
    /\ v # GetSubProof(sig_req_proof, n).commitment
    /\ sig_req_proof' = SetSubProof(sig_req_proof, n,
                            [GetSubProof(sig_req_proof, n) EXCEPT !.commitment = v])
    /\ tampered' = <<"T", n, 0>>
    /\ UNCHANGED sig_req

\* The commitment of the request is changed to v.
TamperCommitment(v) ==
    /\ TamperFrame
    /\ v # sig_req.commitment
    /\ sig_req' = [sig_req EXCEPT !.commitment = v]
    /\ tampered' = <<"commitment", 0, 0>>
    /\ UNCHANGED sig_req_proof

\* Component j (1 for a, 2 for b) of ciphertext i of the request is changed to v.
TamperCiphertext(i, j, v) ==
    /\ TamperFrame
    /\ i \in 1 .. Len(sig_req.ciphertexts)
    /\ v # sig_req.ciphertexts[i][j]
    /\ sig_req' = [sig_req EXCEPT !.ciphertexts[i][j] = v]
    /\ tampered' = <<"ciphertext", i, j>>
    /\ UNCHANGED sig_req_proof

\* The b proof of ciphertext i is replaced by a simulated one: responses s_k
\* and s_m chosen freely and T computed from them, so that its Schnorr equation
\* gamma * s_k + h * s_m - b_i * c = T holds.
ForgeCiphertextProof(i, s_k, s_m) ==
    /\ phase = "PROOF_VERIFIED"
    /\ proof_ok = Ok(TRUE)
    /\ i \in 1 .. Len(sig_req.ciphertexts)
    /\ <<s_k, s_m>> # sig_req_proof.proof_ciphertexts[i][2].responses
    /\ LET h == from_msg_hash(to_bytes(sig_req.commitment))
           T == Group_sub(Group_add(Group_scalar_mul(elg_pk, s_k), Group_scalar_mul(h, s_m)),
                          Group_scalar_mul(sig_req.ciphertexts[i][2], challenge))
       IN  sig_req_proof' = [sig_req_proof EXCEPT !.proof_ciphertexts[i][2] =
                                [commitment |-> T, responses |-> <<s_k, s_m>>]]
    /\ tampered' = <<"forged", i, 2>>
    /\ phase' = "FORGED"
    /\ UNCHANGED <<dealerVars, rng, msgs, elg_sk, elg_pk, sig_req, randomness, sigVars, vkVars,
                   verified, sig_req_pok, challenge, proof_ok, apiVars>>

NextPoK ==
    \/ \E seed \in Seeds : ElgamalKeygen(seed)
    \/ \E messages \in UNION {[1 .. L -> MsgVals] : L \in 1 .. MaxL},
          count_hidden \in 0 .. MaxL : NewRequest(messages, count_hidden)
    \/ PoKInit
    \/ \E c \in Fr : GenProof(c)
    \/ VerifyProof
    \/ \E n \in 0 .. (2 * MaxL + 1), j \in 1 .. (MaxL + 1), v \in Fr : TamperResponse(n, j, v)
    \/ \E n \in 0 .. (2 * MaxL + 1), v \in Fr : TamperT(n, v)
    \/ \E v \in Fr : TamperCommitment(v)
    \/ \E i \in 1 .. MaxL, j \in 1 .. 2, v \in Fr : TamperCiphertext(i, j, v)
    \/ \E i \in 1 .. MaxL, s_k \in Fr, s_m \in Fr : ForgeCiphertextProof(i, s_k, s_m)

SpecPoK == InitPoK /\ [][NextPoK]_vars

\* -------------------------------------- direct calls of the public functions
\* A caller builds a vector of (id, Signature) or of (id, Verkey) from values
\* of its own choice and calls aggregate, or calls verify on a signature, a
\* message vector and a verkey of its own choice.

\* Largest signer id a caller uses (0 is not a valid id, but a usize).
MaxId == 3
\* Largest length of the vector given to aggregate.
MaxEntries == 3

ApiSignatures == {Signature(2, 1), Signature(2, 3), Signature(5, 3)}

ApiVerkeys == {Verkey(1, <<2>>), Verkey(3, <<5>>), Verkey(2, <<1, 4>>)}

\* Values of X_tilde and of the elements of Y_tilde given to verify.
G2Vals == {0, 2, 5}

SeqsUpTo(S, n) == UNION {[1 .. l -> S] : l \in 0 .. n}

InitApi ==
    /\ phase = "API"
    /\ params = Params_new(MaxL)
    /\ threshold = 0 /\ total = 0
    /\ secret_x = None /\ secret_y = None /\ keys = None
    /\ rng = None /\ msgs = None /\ elg_sk = None /\ elg_pk = None
    /\ sig_req = None /\ randomness = None
    /\ blinded_sigs = <<>> /\ unblinded_sigs = <<>> /\ partial_ok = <<>>
    /\ signed_by = {} /\ aggr_sig = None
    /\ vk_ids = {} /\ aggr_vk = None
    /\ verified = None
    /\ sig_req_pok = None /\ challenge = None /\ sig_req_proof = None
    /\ proof_ok = None /\ tampered = None
    /\ sigs = <<>> /\ vkeys = <<>> /\ call = None

ApiFrame ==
    /\ phase = "API"
    /\ UNCHANGED <<dealerVars, userVars, sigVars, vkVars, verified, pokVars>>

\* sigs.push((id, sig))
PushSig(id, sig) ==
    /\ ApiFrame
    /\ vkeys = <<>>
    /\ Len(sigs) < MaxEntries
    /\ sigs' = Push(sigs, <<id, sig>>)
    /\ UNCHANGED <<phase, vkeys, call>>

\* keys.push((id, &vk))
PushKey(id, vk) ==
    /\ ApiFrame
    /\ sigs = <<>>
    /\ Len(vkeys) < MaxEntries
    /\ vkeys' = Push(vkeys, <<id, vk>>)
    /\ UNCHANGED <<phase, sigs, call>>

\* Signature::aggregate(t, sigs); the vector is moved into the call.
CallSignatureAggregate(t) ==
    /\ ApiFrame
    /\ vkeys = <<>>
    /\ call' = [op |-> "Signature::aggregate", threshold |-> t, entries |-> sigs,
                result |-> Signature_aggregate(t, sigs)]
    /\ sigs' = <<>>
    /\ phase' = "CALLED"
    /\ UNCHANGED vkeys

\* Verkey::aggregate(t, keys); the vector is moved into the call.
CallVerkeyAggregate(t) ==
    /\ ApiFrame
    /\ sigs = <<>>
    /\ call' = [op |-> "Verkey::aggregate", threshold |-> t, entries |-> vkeys,
                result |-> Verkey_aggregate(t, vkeys)]
    /\ vkeys' = <<>>
    /\ phase' = "CALLED"
    /\ UNCHANGED sigs

\* sig.verify(&messages, &vk, &params)
CallVerify ==
    /\ ApiFrame
    /\ sigs = <<>> /\ vkeys = <<>>
    /\ \E s1 \in Fr, s2 \in Fr, messages \in SeqsUpTo(MsgVals, MaxL),
          X \in G2Vals, Y \in SeqsUpTo(G2Vals, MaxL) :
            LET sig == Signature(s1, s2)
                vk == Verkey(X, Y)
            IN  call' = [op |-> "Signature::verify", sig |-> sig, messages |-> messages,
                         vk |-> vk, result |-> Signature_verify(sig, messages, vk, params)]
    /\ phase' = "CALLED"
    /\ UNCHANGED <<sigs, vkeys>>

NextApi ==
    \/ \E id \in 0 .. MaxId, sig \in ApiSignatures : PushSig(id, sig)
    \/ \E id \in 0 .. MaxId, vk \in ApiVerkeys : PushKey(id, vk)
    \/ \E t \in 0 .. (MaxEntries + 1) : CallSignatureAggregate(t)
    \/ \E t \in 0 .. (MaxEntries + 1) : CallVerkeyAggregate(t)
    \/ CallVerify

SpecApi == InitApi /\ [][NextApi]_vars

\* ================================================================= claims
\* The signature of the paper's Sign on the full message vector, with
\* h = H(commitment): (h, h * (x + sum of y[i] * m[i] over all i)).
PlainSignature(commitment, sigkey, messages) ==
    LET h == from_msg_hash(to_bytes(commitment))
        e == Fr_add(sigkey.x, SeqSum([i \in 1 .. Len(messages) |->
                                          Fr_mul(sigkey.y[i], messages[i])]))
    IN  Signature(h, Group_scalar_mul(h, e))

HasIdentity(sig) == is_identity(sig.sigma_1) \/ is_identity(sig.sigma_2)

\* The verkey of the dealer's master secret.
MasterVerkey ==
    Verkey(Group_scalar_mul(params.g2, secret_x),
           [j \in 1 .. Len(secret_y) |-> Group_scalar_mul(params.g2, secret_y[j])])

\* C1 (as stated).  Issuance soundness: the signature aggregated from the
\* unblinded partial signatures of any t signers on an honest request verifies
\* against the verkey aggregated from the same signers' verkeys, for every
\* message vector.
C1_AlwaysVerifies ==
    (phase = "VERIFIED" /\ signed_by = vk_ids) => verified = Ok(TRUE)

\* C1 (amended).  The aggregate of t honest partial signatures verifies against
\* the verkey aggregated from the same signers unless one of its components is
\* the identity of G1, in which case verify answers false.
C1_VerifiesUnlessIdentity ==
    (phase = "VERIFIED" /\ signed_by = vk_ids) =>
        verified = Ok(~HasIdentity(aggr_sig.val))

\* C1 witness: t of n signers (1 < t < n), all attributes public, accepted.
C1_Witness ==
    /\ phase = "VERIFIED" /\ signed_by = vk_ids
    /\ 1 < threshold /\ threshold < total
    /\ Len(sig_req.ciphertexts) = 0
    /\ verified = Ok(TRUE)

\* C2 (as stated).  Threshold indifference: a signature aggregated from the
\* signers of a t-subset A verifies against the verkey aggregated from a
\* different t-subset B, for every message vector.
C2_AlwaysVerifies ==
    (phase = "VERIFIED" /\ signed_by # vk_ids) => verified = Ok(TRUE)

\* C2 (amended).  A signature aggregated from the signers of A verifies against
\* the verkey aggregated from a different t-subset B unless one of its
\* components is the identity of G1, in which case verify answers false.
C2_VerifiesUnlessIdentity ==
    (phase = "VERIFIED" /\ signed_by # vk_ids) =>
        verified = Ok(~HasIdentity(aggr_sig.val))

\* C2 witness: disjoint A and B with t > 1, some attributes hidden, accepted.
C2_Witness ==
    /\ phase = "VERIFIED"
    /\ signed_by \cap vk_ids = {}
    /\ threshold > 1
    /\ Len(sig_req.ciphertexts) > 0
    /\ verified = Ok(TRUE)

\* C3.  Aggregation in the exponent: Verkey::aggregate over any t-subset of
\* the signers returns (g2 * x_master, [g2 * y_master[j]]), the verkey of the
\* constant terms of the dealer's polynomials.
C3_AggregateIsMasterVerkey ==
    (phase \in {"VK_AGGREGATED", "VERIFIED"}) => aggr_vk = Ok(MasterVerkey)

\* C3 witness: ids with a gap, t = 3.
C3_Witness ==
    /\ phase = "VK_AGGREGATED"
    /\ vk_ids = {1, 3, 4}
    /\ threshold = 3
    /\ aggr_vk = Ok(MasterVerkey)

\* C6.  Unblind correctness: every unblinded partial signature equals the
\* plain signature (h, h * (x + sum y[i] * m[i])) of the signer's key on the
\* full message vector, with h = H(commitment).
C6_UnblindIsPlainSignature ==
    \A i \in 1 .. Len(unblinded_sigs) :
        unblinded_sigs[i][2] =
            PlainSignature(sig_req.commitment, keys[unblinded_sigs[i][1]][2], msgs)

\* C6 witness: an unblinded signature on a request with a hidden and a known message.
C6_Witness ==
    /\ Len(unblinded_sigs) > 0
    /\ Len(sig_req.ciphertexts) > 0
    /\ Len(sig_req.known_messages) > 0
    /\ \E i \in 1 .. Len(msgs) : msgs[i] # 0

\* C7 (as stated).  Every unblinded partial signature verifies against the
\* verkey of the signer that produced it.
C7_PartialAlwaysVerifies ==
    \A i \in 1 .. Len(partial_ok) : partial_ok[i] = Ok(TRUE)

\* C7 (amended).  Every unblinded partial signature verifies against the
\* verkey of the signer that produced it unless one of its components is the
\* identity of G1, in which case verify answers false.
C7_PartialVerifiesUnlessIdentity ==
    \A i \in 1 .. Len(partial_ok) :
        partial_ok[i] = Ok(~HasIdentity(unblinded_sigs[i][2]))

\* C7 witness: two partial signatures, hidden attributes, both accepted.
C7_Witness ==
    /\ Len(partial_ok) = 2
    /\ Len(sig_req.ciphertexts) > 0
    /\ \A i \in 1 .. 2 : partial_ok[i] = Ok(TRUE)

\* C4.  NIZK completeness: the proof gen_proof returns for an honest request,
\* for any blindings drawn by init and any challenge, is accepted by verify.
C4_HonestProofVerifies ==
    (phase = "PROOF_VERIFIED") => proof_ok = Ok(TRUE)

\* C4 witness: a request with a hidden message, a challenge other than 0 and 1,
\* and an accepted proof.
C4_Witness ==
    /\ phase = "PROOF_VERIFIED"
    /\ Len(sig_req.ciphertexts) > 0
    /\ challenge \notin {0, 1}
    /\ proof_ok = Ok(TRUE)

\* C5 (as stated).  NIZK soundness (negative): after any single change of a
\* response, a T, the commitment or a ciphertext component of a proof and
\* request that verified, verify returns false.
C5_EveryChangeRejected ==
    (phase = "TAMPER_VERIFIED") => proof_ok = Ok(FALSE)

\* C5 (amended).  A single change of a response or of a T is rejected for every
\* challenge; a single change of the commitment or of a ciphertext component
\* is rejected when the challenge is not zero.
C5_ChangeRejectedUnlessZeroChallenge ==
    (phase = "TAMPER_VERIFIED" /\ (challenge # 0 \/ tampered[1] \in {"response", "T"}))
        => proof_ok = Ok(FALSE)

\* C5 witness: a changed ciphertext component under a non-zero challenge, rejected.
C5_Witness ==
    /\ phase = "TAMPER_VERIFIED"
    /\ tampered[1] = "ciphertext"
    /\ challenge # 0
    /\ proof_ok = Ok(FALSE)

IsAggregate(c) == c.op \in {"Signature::aggregate", "Verkey::aggregate"}

\* The failure of the assertion on the number of entries (ThresholdNotMet).
ThresholdNotMet(op) ==
    IF op = "Signature::aggregate"
    THEN Err("assert sigs.len() >= threshold")
    ELSE Err("assert keys.len() >= threshold")

\* The ids of the first t entries of a vector.
FirstIds(entries, t) == [i \in 1 .. Len(Take(entries, t)) |-> entries[i][1]]

HasRepeat(ids) == \E i, j \in 1 .. Len(ids) : i # j /\ ids[i] = ids[j]

HasZero(ids) == \E i \in 1 .. Len(ids) : ids[i] = 0

C9_ThresholdNotMet ==
    (phase = "CALLED" /\ IsAggregate(call) /\ Len(call.entries) < call.threshold) =>
        call.result = ThresholdNotMet(call.op)

\* C9 witness: two entries with valid ids and a threshold of three.
C9_Witness ==
    /\ phase = "CALLED" /\ IsAggregate(call)
    /\ Len(call.entries) = 2 /\ call.threshold = 3
    /\ FirstIds(call.entries, 2) = <<1, 2>>
    /\ call.result = ThresholdNotMet(call.op)

\* C10.  Invalid signer ids are rejected: when the first t entries contain a
\* repeated id or the id 0, aggregate fails instead of returning a value.
C10_InvalidIdsRejected ==
    (/\ phase = "CALLED" /\ IsAggregate(call)
     /\ Len(call.entries) >= call.threshold
     /\ LET ids == FirstIds(call.entries, call.threshold)
        IN  HasRepeat(ids) \/ HasZero(ids))
        => ~IsOk(call.result)

\* The value the called aggregate function returns on a vector.
AggregateOf(op, t, entries) ==
    IF op = "Signature::aggregate"
    THEN Signature_aggregate(t, entries)
    ELSE Verkey_aggregate(t, entries)

\* All the verkeys of a vector have a Y_tilde of one length.
SameShape(entries) ==
    \A i, j \in 1 .. Len(entries) :
        Len(entries[i][2].Y_tilde) = Len(entries[j][2].Y_tilde)

\* C11 (as stated).  Aggregation uses exactly the first t entries: given more
\* than t entries, aggregate returns what it returns on the first t entries
\* alone; the entries after position t have no influence.
C11_OnlyFirstEntriesCount ==
    (phase = "CALLED" /\ IsAggregate(call) /\ Len(call.entries) > call.threshold) =>
        call.result = AggregateOf(call.op, call.threshold,
                                  Take(call.entries, call.threshold))

\* C11 (amended).  Given more than t >= 1 entries, aggregate returns what it
\* returns on the first t entries alone, provided, for Verkey::aggregate, that
\* the verkeys of the whole vector have a Y_tilde of one length.
C11_OnlyFirstEntriesCountWhenShaped ==
    (/\ phase = "CALLED" /\ IsAggregate(call)
     /\ Len(call.entries) > call.threshold /\ call.threshold >= 1
     /\ (call.op = "Verkey::aggregate" => SameShape(call.entries)))
        => call.result = AggregateOf(call.op, call.threshold,
                                     Take(call.entries, call.threshold))

\* C11 witness: Signature::aggregate of three entries with threshold two, the
\* third with an id and a signature of its own, returns an aggregate.
C11_Witness ==
    /\ phase = "CALLED" /\ call.op = "Signature::aggregate"
    /\ Len(call.entries) = 3 /\ call.threshold = 2
    /\ FirstIds(call.entries, 3) = <<1, 2, 3>>
    /\ call.entries[3][2] # call.entries[1][2]
    /\ call.entries[3][2] # call.entries[2][2]
    /\ IsOk(call.result)
    /\ call.result = Signature_aggregate(2, Take(call.entries, 2))

\* The Schnorr equation of one proof, written out in the scalar field:
\* sum of bases[j] * responses[j] - stmt * c = T.
SchnorrHolds(proof, bases, stmt, c) ==
    (SeqSum([j \in 1 .. Len(bases) |-> bases[j] * proof.responses[j]])
        + (Q - 1) * stmt * c) % Q = proof.commitment

GammaHolds == SchnorrHolds(sig_req_proof.proof_elgamal_sk, <<params.g1>>, elg_pk, challenge)

CommitmentHolds ==
    SchnorrHolds(sig_req_proof.proof_commitment,
                 Push(Take(params.h, Len(sig_req.ciphertexts)), params.g1),
                 sig_req.commitment, challenge)

AHolds(i) ==
    SchnorrHolds(sig_req_proof.proof_ciphertexts[i][1], <<params.g1>>,
                 sig_req.ciphertexts[i][1], challenge)

BHolds(i) ==
    SchnorrHolds(sig_req_proof.proof_ciphertexts[i][2],
                 <<elg_pk, from_msg_hash(to_bytes(sig_req.commitment))>>,
                 sig_req.ciphertexts[i][2], challenge)

\* The message response of the b proof of ciphertext i is response i of the
\* commitment proof.
Linked(i) ==
    sig_req_proof.proof_ciphertexts[i][2].responses[2] =
        sig_req_proof.proof_commitment.responses[i]

\* C12.  Commitment-ciphertext linkage: verify returns Ok(true) only if every
\* b proof carries the commitment proof's response for its hidden message and
\* the equations for gamma, the commitment, every a_i and every b_i hold; a
\* proof whose b_i equation holds with another message response gets Ok(false).
C12_AcceptedOnlyIfLinked ==
    (phase \in {"PROOF_VERIFIED", "TAMPER_VERIFIED", "FORGE_VERIFIED"}) =>
        /\ (proof_ok = Ok(TRUE)) =>
              /\ GammaHolds /\ CommitmentHolds
              /\ \A i \in 1 .. Len(sig_req.ciphertexts) : Linked(i) /\ AHolds(i) /\ BHolds(i)
        /\ (\E i \in 1 .. Len(sig_req.ciphertexts) : BHolds(i) /\ ~Linked(i)) =>
              proof_ok = Ok(FALSE)

\* C12 witness: the b proof of the second of two ciphertexts, simulated with a
\* message response of its own under a non-zero challenge, all equations
\* holding, and verify answering Ok(false).
C12_Witness ==
    /\ phase = "FORGE_VERIFIED"
    /\ Len(sig_req.ciphertexts) = 2
    /\ challenge # 0
    /\ GammaHolds /\ CommitmentHolds
    /\ \A i \in 1 .. 2 : AHolds(i) /\ BHolds(i)
    /\ Linked(1) /\ ~Linked(2)
    /\ proof_ok = Ok(FALSE)

\* The Lagrange combination at 0 of the sigma_2 of the first t entries.
LagrangeCombination(entries, t) ==
    LET ids == {entries[i][1] : i \in 1 .. t}
    IN  SeqSum([i \in 1 .. t |->
                   Fr_mul(lagrange_basis_at_0(ids, entries[i][1]).val,
                          entries[i][2].sigma_2)])

\* One sigma_1 of the vector given to Signature::aggregate was replaced.
Mismatched == tampered # None /\ tampered[1] = "sigma_1"

\* Every call of Signature::aggregate in an issuance session returns a
\* Signature whose sigma_1 is that of the first entry and whose sigma_2 is the
\* Lagrange combination of the sigma_2 of the t entries.
AggregateTakesFirstSigma1 ==
    (phase = "REQUEST_BUILT" /\ phase' = "AGGREGATED") =>
        /\ IsOk(aggr_sig')
        /\ aggr_sig'.val.sigma_1 = unblinded_sigs[1][2].sigma_1
        /\ aggr_sig'.val.sigma_2 = LagrangeCombination(unblinded_sigs, threshold)

\* C13 (as stated).  Signature::aggregate does not check that the partial
\* signatures share one sigma_1: sigma_1 is the first entry's, sigma_2 the
\* Lagrange combination, and a vector with mismatched sigma_1 yields a
\* Signature that does not verify against the aggregated verkey.
C13_MismatchNeverVerifies ==
    (phase = "VERIFIED" /\ Mismatched) => verified # Ok(TRUE)

\* C13 (amended).  Signature::aggregate returns, without error, the first
\* entry's sigma_1 and the Lagrange combination of the sigma_2, also for a
\* vector with mismatched sigma_1.  When the replaced sigma_1 is the first
\* entry's, the aggregate carries it and does not verify against the aggregated
\* verkey; when it is another entry's, the aggregate is the signature of the
\* master key, which verifies unless a component is the identity.
C13_MismatchVerifiesUnlessFirst ==
    /\ [][AggregateTakesFirstSigma1]_vars
    /\ [](Mismatched /\ phase \in {"AGGREGATED", "VK_AGGREGATED", "VERIFIED"} =>
            /\ IsOk(aggr_sig)
            /\ IF tampered[2] = 1
               THEN /\ aggr_sig.val.sigma_1 = tampered[3]
                    /\ phase = "VERIFIED" => verified = Ok(FALSE)
               ELSE /\ aggr_sig.val =
                          PlainSignature(sig_req.commitment, Sigkey(secret_x, secret_y), msgs)
                    /\ phase = "VERIFIED" => verified = Ok(~HasIdentity(aggr_sig.val)))

\* C13 witness: among three partial signatures with a hidden message the
\* sigma_1 of the second was replaced; the aggregate is returned and verifies.
C13_Witness ==
    /\ phase = "VERIFIED" /\ Mismatched
    /\ threshold = 3 /\ tampered[2] = 2
    /\ Len(sig_req.ciphertexts) > 0
    /\ IsOk(aggr_sig)
    /\ verified = Ok(TRUE)

====
